---- MODULE Spec2Model ----
(***************************************************************************)
(* Model of the SDXL-Turbo inference service (src/models/sdxl-turbo/       *)
(* server.py): the RequestQueue statistics object and the gRPC servicer    *)
(* that hands generation jobs to a ThreadPoolExecutor.                     *)
(*                                                                         *)
(* Further down: the canvas connection registry and the image broadcast of  *)
(* the psyche backend, in its two forms: WebSocketManager with              *)
(* ImageHandler.send_image (src/psyche/backend/websocket_manager.py,        *)
(* image_handler.py) and the module-level code of src/psyche/backend/main.py.*)
(*                                                                         *)
(* Time is counted in milliseconds by the variable now.  Python floats     *)
(* (avg_processing_time, estimated_wait_time_ms) are modelled as exact     *)
(* rationals <<numerator, denominator>> in lowest terms.                   *)
(***************************************************************************)
EXTENDS Integers, Sequences, FiniteSets, Bags, TLC

\* ------------------------------------------------------------------ bounds
MaxRequests == 2      \* RPC invocations that may arrive in one run
MaxTime == 2          \* the clock stops advancing at this value
MaxQueueLen == 2      \* RequestQueue harness: add_request calls outstanding
MaxSamples == 3       \* RequestQueue harness: update_processing_time calls
MaxLatency == 2       \* RequestQueue harness: largest latency sample
MaxSockets == 2       \* WebSocket objects that exist in one run
MaxBroadcasts == 2    \* send_image calls in one run

Reqs == 1..MaxRequests
Latencies == 0..MaxLatency
RequestIds == {0, 1}
Sockets == 1..MaxSockets
BIds == 1..MaxBroadcasts

\* config.CANVAS_SLUGS, and the keys of main.canvas_connections
CANVAS_SLUGS == {"left-canva", "right-canva"}
\* the slugs a caller may pass: the configured ones and one that is not
Slugs == CANVAS_SLUGS \cup {"other-canva"}
\* the two forms of the registry code
Impls == {"manager", "main"}

\* the order in which the registry dict yields its channels
ChannelOrder == <<"left-canva", "right-canva">>

\* paths of the watched directory: two image files (one with an upper-case
\* extension), one other file
Paths == {"a.jpg", "b.PNG", "notes.txt"}

\* the watcher's clock values, in ms, and the gaps between events
MaxClockMs == 1500
Gaps == {250, 500, 750}

\* ------------------------------------------------------- exact rationals
RECURSIVE GCD(_, _)
GCD(a, b) == IF b = 0 THEN a ELSE GCD(b, a % b)

\* the rational n/d (n >= 0, d > 0) in lowest terms
Rat(n, d) == LET g == GCD(n, d) IN <<n \div g, d \div g>>

RatMulInt(q, k) == Rat(q[1] * k, q[2])
RatAddInt(q, k) == Rat(q[1] + k * q[2], q[2])
RatDivInt(q, k) == Rat(q[1], q[2] * k)

\* --------------------------------------------------------- RequestQueue
\* RequestQueue.__init__
RequestQueueInit ==
    [queue |-> <<>>,
     active_requests |-> 0,
     avg_processing_time |-> Rat(0, 1),
     total_processed |-> 0]

\* RequestQueue.add_request: queue.put on an unbounded asyncio.Queue
add_request(rq, rid, data) ==
    [rq EXCEPT !.queue = Append(@, <<rid, data>>)]

\* RequestQueue.get_request: queue.get, which completes once an item is there
get_request_enabled(rq) == Len(rq.queue) > 0
get_request(rq) == [rq EXCEPT !.queue = Tail(@)]

\* a decayed average in place of the cumulative one
DecayedMean(avg, n, ms) == RatDivInt(RatAddInt(avg, ms), 2)

\* the expression of update_processing_time: (avg * (n - 1) + ms) / n
CumulativeMean(avg, n, ms) ==
    RatDivInt(RatAddInt(RatMulInt(avg, n - 1), ms), n)

\* RequestQueue.update_processing_time
update_processing_time(rq, ms) ==
    LET n == rq.total_processed + 1
    IN [rq EXCEPT !.total_processed = n,
                  !.avg_processing_time = CumulativeMean(@, n, ms)]

\* an estimate that counts one more job than the queue holds
EstimatedWaitPlusActive(avg, qsize) == RatMulInt(avg, qsize + 1)

\* avg_processing_time * queue.qsize()
EstimatedWait(avg, qsize) == RatMulInt(avg, qsize)

\* RequestQueue.get_status
get_status(rq) ==
    [queue_length |-> Len(rq.queue),
     active_requests |-> rq.active_requests,
     estimated_wait_time_ms |-> EstimatedWait(rq.avg_processing_time, Len(rq.queue))]

\* ------------------------------------------------------------- variables
VARIABLES
    request_counter,   \* SDXLTurboServicer.request_counter
    request_queue,     \* SDXLTurboServicer.request_queue, a RequestQueue
    work_queue,        \* work items the executor has accepted and not started
    future,            \* per invocation: state of its run_in_executor future
    pc,                \* per invocation: where its handler coroutine stands
    kind,              \* per invocation: which RPC it is
    request_id,        \* per invocation: the handler's local request_id
    start_time,        \* per invocation: the handler's local start_time
    response,          \* per invocation: the response message it returned
    now,               \* time.time(), in ms
    status,            \* the last status snapshot returned
    started_at,        \* history: when the worker entered the backend for it
    returned_at,       \* history: when the handler built its response
    ahead,             \* history: jobs waiting or executing when it was submitted
    last_op,           \* history: the last two RequestQueue methods called directly
    sample_count,      \* history: update_processing_time calls made directly
    sample_sum         \* history: sum of the latencies passed in those calls

VARIABLES
    impl,              \* which form of the registry code runs: "manager" or "main"
    connections,       \* WebSocketManager.connections / main.canvas_connections
    cpc,               \* per socket: where its connect / endpoint call stands
    cslug,             \* per socket: the canvas_slug of that call
    accepted,          \* per socket: websocket.accept() has completed
    closed,            \* per socket: websocket.close() has been called
    last,              \* the last WebSocketManager call and how it ended
    got,               \* the set the last get_connections call returned
    bc,                \* per send_image call: its local variables
    next_image         \* messages built so far (each gets a fresh image_id)

VARIABLES
    stop,              \* the stop() / shutdown_event call: its position and locals
    log                \* the connection logging task

VARIABLES
    last_modified,     \* utils.ImageHandler.last_modified
    clock,             \* time.time() of the watcher, in units of TimeUnitMs
    called             \* history: what the last on_modified call did

sdVars == <<stop, log>>
fsVars == <<last_modified, clock, called>>
wsVars == <<impl, connections, cpc, cslug, accepted, closed, last, got, bc,
            next_image>>

svcVars == <<request_counter, work_queue, future, pc, kind, request_id,
             start_time, response, now, started_at, returned_at, ahead>>
rqVars == <<last_op, sample_count, sample_sum>>
vars == <<request_counter, request_queue, work_queue, future, pc, kind,
          request_id, start_time, response, now, status, started_at,
          returned_at, ahead, last_op, sample_count, sample_sum, impl,
          connections, cpc, cslug, accepted, closed, last, got, bc,
          next_image, stop, log, last_modified, clock, called>>

NoResponse == [generated |-> "none", request_id |-> -1, processing_time_ms |-> -1]
NoStatus == [queue_length |-> -1, active_requests |-> -1,
             estimated_wait_time_ms |-> Rat(0, 1)]

NoBroadcast ==
    [pc |-> "idle", slug |-> "none", alias |-> FALSE, todo |-> {}, ok |-> {},
     failed |-> {}, encoded |-> FALSE, image_id |-> 0, outcome |-> "none",
     stalled_on |-> 0, sent |-> {}]
NoGot == [slug |-> "none", alias |-> FALSE, fresh |-> {}, outcome |-> "none"]
NoCall == [op |-> "none", result |-> "none", member |-> FALSE]

\* WebSocketManager.__init__ / the module level of main.py: one empty set per
\* configured slug; no socket has connected and no image has been sent
WSInit(i) ==
    /\ impl = i
    /\ connections = [slug \in CANVAS_SLUGS |-> EmptyBag]
    /\ cpc = [w \in Sockets |-> "new"]
    /\ cslug = [w \in Sockets |-> "none"]
    /\ accepted = [w \in Sockets |-> FALSE]
    /\ closed = [w \in Sockets |-> FALSE]
    /\ last = NoCall
    /\ got = NoGot
    /\ bc = [b \in BIds |-> NoBroadcast]
    /\ next_image = 0

\* SDXLTurboServicer.__init__ (and the state of each not yet arrived RPC)
ServicerInit ==
    /\ request_counter = 0
    /\ request_queue = RequestQueueInit
    /\ work_queue = <<>>
    /\ future = [r \in Reqs |-> "none"]
    /\ pc = [r \in Reqs |-> "init"]
    /\ kind = [r \in Reqs |-> "none"]
    /\ request_id = [r \in Reqs |-> -1]
    /\ start_time = [r \in Reqs |-> 0]
    /\ response = [r \in Reqs |-> NoResponse]
    /\ now = 0
    /\ status = NoStatus
    /\ started_at = [r \in Reqs |-> -1]
    /\ returned_at = [r \in Reqs |-> -1]
    /\ ahead = [r \in Reqs |-> 0]
    /\ last_op = [op |-> "none", prev |-> "none"]
    /\ sample_count = 0
    /\ sample_sum = 0

\* no stop() / shutdown_event call has been made and start() has not run:
\* WebSocketManager._log_task is None, main.py has created no task
NoStop ==
    [pc |-> "idle", idx |-> 0, snap |-> {}, seen |-> {}, cur |-> 0,
     held |-> {}, attempted |-> {}]
NoLogTask == [task |-> "none", ran |-> FALSE, late |-> FALSE]

ShutdownInit ==
    /\ stop = NoStop
    /\ log = NoLogTask

\* utils.ImageHandler.__init__: no modification is recorded
NoEvent ==
    [path |-> "none", is_directory |-> FALSE, invoked |-> FALSE, prev |-> -1]

WatchInit ==
    /\ last_modified = [p \in Paths |-> -1]
    /\ clock = 0
    /\ called = NoEvent

Init == WSInit("manager") /\ ServicerInit /\ ShutdownInit /\ WatchInit

\* either form of the registry code, freshly started
InitWS ==
    (\E i \in Impls : WSInit(i)) /\ ServicerInit /\ ShutdownInit /\ WatchInit

\* ------------------------------------------------------ SDXLTurboServicer
Arrived == {r \in Reqs : pc[r] # "init"}
Waiting == {r \in Reqs : future[r] = "pending"}
Executing == {r \in Reqs : future[r] = "running"}

\* two worker threads in place of one
max_workers_two == 1 + 1

\* ThreadPoolExecutor(max_workers=1)
max_workers == 1

\* a counter that is read and never advanced
KeepRequestCounter(c) == c

\* self.request_counter += 1
NextRequestCounter(c) == c + 1

\* the executor's work queue taken from its newest end
NewestWorkItem(q) == Len(q)

\* the executor's work queue is first in, first out: the index it takes next
NextWorkItem(q) == 1

RemoveAt(q, i) == [j \in 1..(Len(q) - 1) |-> IF j < i THEN q[j] ELSE q[j + 1]]

\* an await that is woken by a result only
FutureDoneOnResult(f) == f = "result"

\* the awaited future is done: it holds a result or an exception
FutureDone(f) == f \in {"result", "exception"}

\* an except clause that swallows the exception
SwallowException(f) == "returned"

\* the handler after the await: return the response, or log and re-raise
AfterAwait(f) == IF f = "result" THEN "returned" ELSE "raised"

\* int((time.time() - start_time) * 1000)
ElapsedMs(t0, t1) == t1 - t0

\* a handler's code up to its await: take the id, advance the counter, read
\* the clock, and hand the job to the executor (run_in_executor)
Submit(r, k) ==
    /\ pc[r] = "init"
    /\ r = Cardinality(Arrived) + 1
    /\ request_id' = [request_id EXCEPT ![r] = request_counter]
    /\ request_counter' = NextRequestCounter(request_counter)
    /\ start_time' = [start_time EXCEPT ![r] = now]
    /\ work_queue' = Append(work_queue, r)
    /\ future' = [future EXCEPT ![r] = "pending"]
    /\ kind' = [kind EXCEPT ![r] = k]
    /\ pc' = [pc EXCEPT ![r] = "awaiting"]
    /\ ahead' = [ahead EXCEPT ![r] = Cardinality(Waiting \cup Executing)]
    /\ UNCHANGED <<request_queue, response, now, status, started_at,
                   returned_at, rqVars, wsVars,
                   sdVars, fsVars>>

\* a handler's code after its await
Complete(r, k, gen) ==
    /\ pc[r] = "awaiting"
    /\ kind[r] = k
    /\ FutureDone(future[r])
    /\ pc' = [pc EXCEPT ![r] = AfterAwait(future[r])]
    /\ IF AfterAwait(future[r]) = "returned"
       THEN /\ response' = [response EXCEPT ![r] =
                   [generated |-> gen,
                    request_id |-> request_id[r],
                    processing_time_ms |-> ElapsedMs(start_time[r], now)]]
            /\ returned_at' = [returned_at EXCEPT ![r] = now]
       ELSE UNCHANGED <<response, returned_at>>
    /\ UNCHANGED <<request_counter, request_queue, work_queue, future, kind,
                   request_id, start_time, now, status, started_at, ahead, rqVars, wsVars,
                   sdVars, fsVars>>

\* SDXLTurboServicer.Img2Img
Img2Img(r) == Submit(r, "Img2Img")
Img2ImgDone(r) == Complete(r, "Img2Img", "image")

\* SDXLTurboServicer.Img2ImgBatch
Img2ImgBatch(r) == Submit(r, "Img2ImgBatch")
Img2ImgBatchDone(r) == Complete(r, "Img2ImgBatch", "images")

\* a free worker thread of the executor takes the next work item; it enters
\* model.generate_image / model.generate_batch, unless the item's future was
\* cancelled while it waited: then the item is dropped without being run
WorkerStart ==
    /\ Cardinality(Executing) < max_workers
    /\ work_queue # <<>>
    /\ LET i == NextWorkItem(work_queue)
           r == work_queue[i]
       IN /\ work_queue' = RemoveAt(work_queue, i)
          /\ IF future[r] = "cancelled"
             THEN UNCHANGED <<future, started_at>>
             ELSE /\ future' = [future EXCEPT ![r] = "running"]
                  /\ started_at' = [started_at EXCEPT ![r] = now]
    /\ UNCHANGED <<request_counter, request_queue, pc, kind, request_id,
                   start_time, response, now, status, returned_at, ahead, rqVars, wsVars,
                   sdVars, fsVars>>

\* model.generate_image / generate_batch returns: the future gets the result
BackendReturn(r) ==
    /\ future[r] = "running"
    /\ future' = [future EXCEPT ![r] = "result"]
    /\ UNCHANGED <<request_counter, request_queue, work_queue, pc, kind,
                   request_id, start_time, response, now, status, started_at,
                   returned_at, ahead, rqVars, wsVars,
                   sdVars, fsVars>>

\* model.generate_image / generate_batch raises: the future gets the exception
BackendRaise(r) ==
    /\ future[r] = "running"
    /\ future' = [future EXCEPT ![r] = "exception"]
    /\ UNCHANGED <<request_counter, request_queue, work_queue, pc, kind,
                   request_id, start_time, response, now, status, started_at,
                   returned_at, ahead, rqVars, wsVars,
                   sdVars, fsVars>>

\* the handler's task is cancelled while it awaits run_in_executor (its client
\* went away): CancelledError is no Exception, so the except clause lets it
\* through; cancelling the awaited future cancels the executor's future, which
\* succeeds only while the work item has not started
Cancel(r) ==
    /\ pc[r] = "awaiting"
    /\ pc' = [pc EXCEPT ![r] = "cancelled"]
    /\ future' = [future EXCEPT ![r] =
                     IF @ = "pending" THEN "cancelled" ELSE @]
    /\ UNCHANGED <<request_counter, request_queue, work_queue, kind,
                   request_id, start_time, response, now, status, started_at,
                   returned_at, ahead, rqVars, wsVars,
                   sdVars, fsVars>>

\* the QueueStatusResponse built from a status dict
QueueStatusResponse(st) ==
    [queue_length |-> st.queue_length,
     estimated_wait_time_ms |-> st.estimated_wait_time_ms,
     active_requests |-> st.active_requests]

\* SDXLTurboServicer.GetQueueStatus
GetQueueStatus ==
    /\ status' = QueueStatusResponse(get_status(request_queue))
    /\ UNCHANGED <<request_queue, svcVars, rqVars, wsVars,
                   sdVars, fsVars>>

\* the wall clock advances by 1 ms.  A free worker thread takes a submitted
\* work item in less than that, so the clock stands while one could be taken:
\* the time a job waits is time spent behind jobs ahead of it.
Tick ==
    /\ now < MaxTime
    /\ ~(work_queue # <<>> /\ Cardinality(Executing) < max_workers)
    /\ now' = now + 1
    /\ UNCHANGED <<request_counter, request_queue, work_queue, future, pc,
                   kind, request_id, start_time, response, status, started_at,
                   returned_at, ahead, rqVars, wsVars,
                   sdVars, fsVars>>

Next ==
    \/ \E r \in Reqs : Img2Img(r)
    \/ \E r \in Reqs : Img2ImgBatch(r)
    \/ WorkerStart
    \/ \E r \in Reqs : BackendReturn(r)
    \/ \E r \in Reqs : BackendRaise(r)
    \/ \E r \in Reqs : Img2ImgDone(r)
    \/ \E r \in Reqs : Img2ImgBatchDone(r)
    \/ GetQueueStatus
    \/ Tick

Spec == Init /\ [][Next]_vars

\* the servicer with the clock held still: no guard reads the clock, so these
\* are the behaviours of Next with the recorded times left out
NextNoClock ==
    \/ \E r \in Reqs : Img2Img(r)
    \/ \E r \in Reqs : Img2ImgBatch(r)
    \/ WorkerStart
    \/ \E r \in Reqs : BackendReturn(r)
    \/ \E r \in Reqs : BackendRaise(r)
    \/ \E r \in Reqs : Img2ImgDone(r)
    \/ \E r \in Reqs : Img2ImgBatchDone(r)
    \/ GetQueueStatus

\* the executor's worker thread keeps running, every backend call terminates,
\* and the event loop resumes a handler whose future is done
FairSpec ==
    /\ Init /\ [][NextNoClock]_vars
    /\ WF_vars(WorkerStart)
    /\ \A r \in Reqs : WF_vars(BackendReturn(r) \/ BackendRaise(r))
    /\ \A r \in Reqs : WF_vars(Img2ImgDone(r) \/ Img2ImgBatchDone(r))

\* the servicer with clients that may go away while their request is awaited
NextCancel ==
    \/ NextNoClock
    \/ \E r \in Reqs : Cancel(r)

SpecCancel == Init /\ [][NextCancel]_vars

\* ------------------------------------- RequestQueue driven through its API
\* await request_queue.add_request(request_id, request_data)
AddRequest(rid) ==
    /\ Len(request_queue.queue) < MaxQueueLen
    /\ request_queue' = add_request(request_queue, rid, "request_data")
    /\ last_op' = [op |-> "add_request", prev |-> last_op.op]
    /\ UNCHANGED <<svcVars, wsVars, sdVars, fsVars, status, sample_count, sample_sum>>

\* await request_queue.get_request()
GetRequest ==
    /\ get_request_enabled(request_queue)
    /\ request_queue' = get_request(request_queue)
    /\ last_op' = [op |-> "get_request", prev |-> last_op.op]
    /\ UNCHANGED <<svcVars, wsVars, sdVars, fsVars, status, sample_count, sample_sum>>

\* request_queue.update_processing_time(ms)
UpdateProcessingTime(ms) ==
    /\ sample_count < MaxSamples
    /\ request_queue' = update_processing_time(request_queue, ms)
    /\ sample_count' = sample_count + 1
    /\ sample_sum' = sample_sum + ms
    /\ last_op' = [op |-> "update_processing_time", prev |-> last_op.op]
    /\ UNCHANGED <<svcVars, wsVars, sdVars, fsVars, status>>

\* request_queue.get_status()
GetStatus ==
    /\ status' = get_status(request_queue)
    /\ last_op' = [op |-> "get_status", prev |-> last_op.op]
    /\ UNCHANGED <<svcVars, wsVars, sdVars, fsVars, request_queue, sample_count, sample_sum>>

NextRQ ==
    \/ \E rid \in RequestIds : AddRequest(rid)
    \/ GetRequest
    \/ \E ms \in Latencies : UpdateProcessingTime(ms)
    \/ GetStatus

SpecRQ == Init /\ [][NextRQ]_vars

\* ------------------------------------------- the connection registry
\* the members of a channel; a slug without an entry has none
Members(reg, slug) ==
    IF slug \in DOMAIN reg THEN BagToSet(reg[slug]) ELSE {}

\* a list that takes the same element again
list_append(members, w) == members (+) SetToBag({w})

\* set.add: an element that is already there is not added again
set_add(members, w) ==
    IF BagIn(w, members) THEN members ELSE members (+) SetToBag({w})

\* set.remove of an element that is there
set_remove(members, w) == members (-) SetToBag({w})

\* a check that lets every slug through
any_slug(reg, slug) == TRUE

\* canvas_slug in self.connections / canvas_slug in canvas_connections
slug_configured(reg, slug) == slug \in DOMAIN reg

\* connections[canvas_slug].add(websocket); a missing key is a KeyError and
\* leaves the dict as it is
registry_add(reg, slug, w) ==
    IF slug \in DOMAIN reg
    THEN [reg EXCEPT ![slug] = set_add(@, w)]
    ELSE reg

\* a test that always says yes
always_member(reg, slug, w) == TRUE

\* websocket in connections[canvas_slug]
is_member(reg, slug, w) == BagIn(w, reg[slug])

\* connections[canvas_slug].remove(websocket) is reached for a socket that is
\* not in the set: KeyError
remove_raises(reg, slug, w) == is_member(reg, slug, w) /\ ~BagIn(w, reg[slug])

\* a removal that is skipped
registry_keep(reg, slug, w) == reg

\* a removal that puts the socket into the set instead
registry_put_back(reg, slug, w) ==
    IF slug \in DOMAIN reg
    THEN [reg EXCEPT ![slug] = set_add(@, w)]
    ELSE reg

\* if websocket in connections[canvas_slug]: connections[canvas_slug].remove(websocket)
registry_discard(reg, slug, w) ==
    IF is_member(reg, slug, w)
    THEN [reg EXCEPT ![slug] = set_remove(@, w)]
    ELSE reg

\* a lookup that makes the entry it does not find
get_or_create(reg, slug) ==
    IF slug \in DOMAIN reg THEN reg
    ELSE [t \in DOMAIN reg \cup {slug} |->
              IF t \in DOMAIN reg THEN reg[t] ELSE EmptyBag]

\* the dict after self.connections.get(canvas_slug, set()): unchanged
registry_after_get(reg, slug) == reg

\* a socket no call has touched yet; sockets are taken into use in the order
\* of their numbers
Unused(w) == cpc[w] = "new" /\ ~accepted[w] /\ ~closed[w]
NextToUse(w) == Unused(w) => \A v \in Sockets : v < w => ~Unused(v)

\* WebSocketManager.connect up to its await: for an unconfigured slug nothing
\* is done; otherwise websocket.accept() is called
connect_call(w, slug) ==
    /\ impl = "manager"
    /\ cpc[w] # "accepting"
    /\ NextToUse(w)
    /\ IF ~slug_configured(connections, slug)
       THEN UNCHANGED <<cpc, cslug>>
       ELSE /\ cpc' = [cpc EXCEPT ![w] = "accepting"]
            /\ cslug' = [cslug EXCEPT ![w] = slug]
    /\ UNCHANGED <<impl, connections, accepted, closed, got, bc, next_image,
                   request_queue, status, svcVars, rqVars,
                   sdVars, fsVars>>

\* what connect has returned at that point: False for an unconfigured slug,
\* nothing yet while accept() is awaited
connect_returns(reg, slug) ==
    IF ~slug_configured(reg, slug) THEN "False" ELSE "awaiting"

\* WebSocketManager.connect after its await: accept() has completed and the
\* socket is added, or accept() raised and connect raises with it
connect_resume(w, accept_ok) ==
    /\ impl = "manager"
    /\ cpc[w] = "accepting"
    /\ IF accept_ok
       THEN /\ accepted' = [accepted EXCEPT ![w] = TRUE]
            /\ connections' = registry_add(connections, cslug[w], w)
       ELSE UNCHANGED <<accepted, connections>>
    /\ cpc' = [cpc EXCEPT ![w] = "new"]
    /\ cslug' = [cslug EXCEPT ![w] = "none"]
    /\ UNCHANGED <<impl, closed, got, bc, next_image, request_queue, status,
                   svcVars, rqVars,
                   sdVars, fsVars>>

\* how connect ends after the await: it returns True, or the exception of
\* accept() (or of the add) leaves it
connect_resume_returns(reg, slug, accept_ok) ==
    IF accept_ok /\ slug \in DOMAIN reg THEN "True" ELSE "raised"

\* disconnect raises: connections[canvas_slug] of an unconfigured slug is a
\* KeyError
disconnect_raises(reg, slug) == slug \notin DOMAIN reg

\* WebSocketManager.disconnect
disconnect_call(w, slug) ==
    /\ impl = "manager"
    /\ connections' = IF disconnect_raises(connections, slug)
                      THEN connections
                      ELSE registry_discard(connections, slug, w)
    /\ UNCHANGED <<impl, cpc, cslug, accepted, closed, got, bc, next_image,
                   request_queue, status, svcVars, rqVars,
                   sdVars, fsVars>>

\* the calls with their outcome recorded: what the call gave back, and whether
\* the socket was a member of the channel when it was made
Connect(w, slug) ==
    /\ connect_call(w, slug)
    /\ last' = [op |-> "connect", result |-> connect_returns(connections, slug),
                member |-> w \in Members(connections, slug)]

ConnectAccepted(w, accept_ok) ==
    /\ connect_resume(w, accept_ok)
    /\ last' = [op |-> "connect",
                result |-> connect_resume_returns(connections, cslug[w],
                                                  accept_ok),
                member |-> w \in Members(connections, cslug[w])]

Disconnect(w, slug) ==
    /\ disconnect_call(w, slug)
    /\ last' = [op |-> "disconnect",
                result |-> IF disconnect_raises(connections, slug)
                           THEN "KeyError" ELSE "returned",
                member |-> w \in Members(connections, slug)]

\* the calls made by a caller that does not look at the outcome
Join(w, slug) == connect_call(w, slug) /\ UNCHANGED last

JoinAccepted(w, accept_ok) == connect_resume(w, accept_ok) /\ UNCHANGED last

Leave(w, slug) == disconnect_call(w, slug) /\ UNCHANGED last

\* WebSocketManager.get_connections: the registry's own set for a configured
\* slug, a new empty set otherwise
GetConnections(slug) ==
    /\ impl = "manager"
    /\ connections' = registry_after_get(connections, slug)
    /\ got' = [slug |-> slug, alias |-> slug \in DOMAIN connections,
               fresh |-> {}, outcome |-> "returned"]
    /\ UNCHANGED <<impl, cpc, cslug, accepted, closed, last, bc, next_image,
                   request_queue, status, svcVars, rqVars,
                   sdVars, fsVars>>

\* what the set returned by get_connections holds now
Returned == IF got.alias THEN Members(connections, got.slug) ELSE got.fresh

\* the caller adds a socket to the set that get_connections returned: this
\* changes the registry when the set is the registry's own
AddToReturned(w) ==
    /\ impl = "manager"
    /\ got.slug # "none"
    /\ ~Unused(w)
    /\ w \notin Returned
    /\ IF got.alias
       THEN /\ connections' = registry_add(connections, got.slug, w)
            /\ UNCHANGED got
       ELSE /\ got' = [got EXCEPT !.fresh = @ \cup {w}]
            /\ UNCHANGED connections
    /\ UNCHANGED <<impl, cpc, cslug, accepted, closed, last, bc, next_image,
                   request_queue, status, svcVars, rqVars,
                   sdVars, fsVars>>

\* main.websocket_endpoint up to its first await: an unconfigured slug makes
\* it close the socket and return; otherwise it calls websocket.accept()
Endpoint(w, slug) ==
    /\ impl = "main"
    /\ Unused(w)
    /\ NextToUse(w)
    /\ cslug' = [cslug EXCEPT ![w] = slug]
    /\ IF ~slug_configured(connections, slug)
       THEN /\ closed' = [closed EXCEPT ![w] = TRUE]
            /\ cpc' = [cpc EXCEPT ![w] = "rejected"]
       ELSE /\ cpc' = [cpc EXCEPT ![w] = "accepting"]
            /\ UNCHANGED closed
    /\ UNCHANGED <<impl, connections, accepted, last, got, bc, next_image,
                   request_queue, status, svcVars, rqVars,
                   sdVars, fsVars>>

\* main.websocket_endpoint after accept(): the socket is added and the receive
\* loop starts, or accept() raised and the handler ends with that exception
EndpointAccepted(w, accept_ok) ==
    /\ impl = "main"
    /\ cpc[w] = "accepting"
    /\ IF accept_ok
       THEN /\ accepted' = [accepted EXCEPT ![w] = TRUE]
            /\ connections' = registry_add(connections, cslug[w], w)
            /\ cpc' = [cpc EXCEPT ![w] =
                  IF cslug[w] \in DOMAIN connections THEN "open" ELSE "raised"]
       ELSE /\ cpc' = [cpc EXCEPT ![w] = "raised"]
            /\ UNCHANGED <<accepted, connections>>
    /\ UNCHANGED <<impl, cslug, closed, last, got, bc, next_image,
                   request_queue, status, svcVars, rqVars,
                   sdVars, fsVars>>

\* main.websocket_endpoint: receive_text raises (the client disconnected, or
\* another error); the finally clause removes the socket if it is still there
EndpointEnd(w) ==
    /\ impl = "main"
    /\ cpc[w] = "open"
    /\ connections' = registry_discard(connections, cslug[w], w)
    /\ cpc' = [cpc EXCEPT ![w] =
                  IF remove_raises(connections, cslug[w], w)
                  THEN "raised" ELSE "ended"]
    /\ UNCHANGED <<impl, cslug, accepted, closed, last, got, bc, next_image,
                   request_queue, status, svcVars, rqVars,
                   sdVars, fsVars>>

\* ------------------------------------------------------ the image broadcast
\* bc[b].sent holds, for each send_json that completed, the socket and the
\* image_id of the message it was given
\* the snapshot list(connections) that a send_image call iterates over
Snapshot(b) == bc[b].todo \cup bc[b].ok \cup bc[b].failed

\* the image_ids of the messages that were delivered to a socket
Received(w) == {bc[b].image_id : b \in {c \in BIds : w \in bc[c].ok}}

\* the members of every channel
all_channels(reg, slug) == UNION {Members(reg, t) : t \in DOMAIN reg}

\* the set a send_image call works on: connections[canvas_slug], or what
\* get_connections(canvas_slug) returns
recipients(reg, slug) == Members(reg, slug)

\* a check that is never true
never_empty(conns) == FALSE

\* not connections
no_connections(conns) == conns = {}

\* an except clause that raises again
reraise(send_ok) == "raised"

\* the except clause around send_json: the failure is logged and counted
after_send(send_ok) == "returned"

\* an id that is the same for every message
same_image_id(n) == 1

\* str(uuid.uuid4()): an id no earlier message has, here the number of the
\* message
fresh_image_id(n) == n + 1

\* send_image up to its first await.  main.send_image returns for an
\* unconfigured slug; both forms return when the set is empty; then the image
\* is encoded and the message built, and the loop over list(connections)
\* starts.  When encoding raises, main.send_image logs it and returns;
\* ImageHandler.send_image calls traceback.format_exc() without importing
\* traceback, so the NameError leaves the call.
SendImage(b, slug, encode_ok) ==
    /\ bc[b].pc = "idle"
    /\ \A c \in BIds : c < b => bc[c].pc # "idle"
    /\ LET conns == recipients(connections, slug)
           early == \/ (impl = "main" /\ ~slug_configured(connections, slug))
                    \/ no_connections(conns)
           call == [NoBroadcast EXCEPT
                       !.slug = slug,
                       !.alias = slug \in DOMAIN connections]
       IN IF early
          THEN /\ bc' = [bc EXCEPT ![b] =
                          [call EXCEPT !.pc = "done", !.outcome = "returned"]]
               /\ UNCHANGED next_image
          ELSE IF ~encode_ok
          THEN /\ bc' = [bc EXCEPT ![b] =
                          [call EXCEPT !.pc = "done", !.encoded = TRUE,
                                       !.outcome = IF impl = "main"
                                                   THEN "returned"
                                                   ELSE "raised"]]
               /\ UNCHANGED next_image
          ELSE /\ next_image' = next_image + 1
               /\ bc' = [bc EXCEPT ![b] =
                          [call EXCEPT !.pc = IF conns = {} THEN "done"
                                              ELSE "sending",
                                       !.outcome = IF conns = {} THEN "returned"
                                                   ELSE "none",
                                       !.encoded = TRUE,
                                       !.image_id = fresh_image_id(next_image),
                                       !.todo = conns]]
    /\ UNCHANGED <<impl, connections, cpc, cslug, accepted, closed, last, got,
                   request_queue, status, svcVars, rqVars,
                   sdVars, fsVars>>

\* a loop over the set itself: whoever is in it now and was not yet visited
live_members(call, reg) ==
    Members(reg, call.slug) \ (call.ok \cup call.failed)

\* for connection in list(connections): the sockets of the copy made when
\* the loop began that it has not visited yet
to_visit(call, reg) == call.todo

\* one turn of the loop: send_json to one socket of the snapshot completes or
\* raises; a socket whose send raised is removed if it is still in the set;
\* after the last one the counts are logged and send_image returns
SendJson(b, w, send_ok) ==
    /\ bc[b].pc = "sending"
    /\ w \in to_visit(bc[b], connections)
    /\ LET out == IF send_ok THEN "returned" ELSE after_send(send_ok)
           rest == to_visit(bc[b], connections) \ {w}
       IN /\ bc' = [bc EXCEPT ![b] =
                      [@ EXCEPT !.todo = rest,
                                !.ok = IF send_ok THEN @ \cup {w} ELSE @,
                                !.sent = IF send_ok
                                         THEN @ \cup {<<w, bc[b].image_id>>}
                                         ELSE @,
                                !.failed = IF send_ok THEN @ ELSE @ \cup {w},
                                !.pc = IF rest = {} \/ out = "raised"
                                       THEN "done" ELSE "sending",
                                !.outcome = IF out = "raised" THEN "raised"
                                            ELSE IF rest = {} THEN "returned"
                                            ELSE "none"]]
          /\ connections' =
                IF send_ok \/ ~bc[b].alias THEN connections
                ELSE registry_discard(connections, bc[b].slug, w)
    /\ UNCHANGED <<impl, cpc, cslug, accepted, closed, last, got, next_image,
                   request_queue, status, svcVars, rqVars,
                   sdVars, fsVars>>

\* the sockets of a call's snapshot whose send_json has been called
Attempted(b) ==
    bc[b].ok \cup bc[b].failed \cup
        (IF bc[b].stalled_on = 0 THEN {} ELSE {bc[b].stalled_on})

\* one turn of the loop whose await never ends: send_json to the next socket
\* of the snapshot neither completes nor raises, so the loop, which awaits
\* one send at a time, does not get to the sockets after it
SendStall(b, w) ==
    /\ bc[b].pc = "sending"
    /\ w \in bc[b].todo
    /\ bc' = [bc EXCEPT ![b] = [@ EXCEPT !.pc = "stalled", !.stalled_on = w]]
    /\ UNCHANGED <<impl, connections, cpc, cslug, accepted, closed, last, got,
                   next_image, request_queue, status, svcVars, rqVars,
                   sdVars, fsVars>>

\* ------------------------------------------------ start, logging, shutdown
\* the sockets held in any channel
Held(reg) == UNION {Members(reg, slug) : slug \in DOMAIN reg}

\* for ... in self.connections.items() from channel number i on, each with
\* `for connection in connections`: channels without members are passed
\* over; in the first one that has members an iterator over the set itself
\* is made, which yields one of its members (in the set's order, which the
\* code does not control); after the last channel the call ends
RECURSIVE EnterChannel(_, _, _)
EnterChannel(reg, i, st) ==
    IF i > Len(ChannelOrder)
    THEN {[st EXCEPT !.pc = "done", !.idx = i, !.snap = {}, !.seen = {},
                     !.cur = 0]}
    ELSE LET members == Members(reg, ChannelOrder[i])
         IN IF members = {}
            THEN EnterChannel(reg, i + 1, st)
            ELSE {[st EXCEPT !.pc = "closing", !.idx = i, !.snap = members,
                             !.seen = {}, !.cur = w] : w \in members}

\* the set iterator is asked for its next element after the await: a set
\* whose size differs from the size it had when the iterator was made gives
\* RuntimeError (Set changed size during iteration), which nothing in stop /
\* shutdown_event catches; an unchanged set yields a member not yet visited
\* or ends this channel; a set of the same size with other members yields
\* any member not yet visited or ends, as its hash table happens to be laid
\* out
NextConnection(reg, st) ==
    LET members == Members(reg, ChannelOrder[st.idx])
        rest == members \ st.seen
        more == {[st EXCEPT !.cur = w] : w \in rest}
        onward == EnterChannel(reg, st.idx + 1, st)
    IN IF Cardinality(members) # Cardinality(st.snap)
       THEN {[st EXCEPT !.pc = "raised", !.cur = 0]}
       ELSE IF members = st.snap
       THEN (IF rest # {} THEN more ELSE onward)
       ELSE more \cup onward

\* WebSocketManager.start / main.startup_event: the logging task is created
Start ==
    /\ log.task = "none"
    /\ stop.pc = "idle"
    /\ log' = [log EXCEPT !.task = "pending"]
    /\ UNCHANGED <<stop, wsVars, request_queue, status, svcVars, rqVars, fsVars>>

\* one turn of _log_connections / log_connections: the task runs (for the
\* first time, or after its sleep), logs the size of every channel and sleeps
LogIteration ==
    /\ log.task = "pending"
    /\ log' = [log EXCEPT !.ran = TRUE,
                          !.late = @ \/ stop.pc \in {"done", "raised"}]
    /\ UNCHANGED <<stop, wsVars, request_queue, status, svcVars, rqVars, fsVars>>

\* WebSocketManager.stop / main.shutdown_event up to the first await: stop
\* cancels its _log_task if there is one, shutdown_event has no reference to
\* the task that startup_event created; then the loops over the channels
\* and their sets begin
StopBegin ==
    /\ stop.pc = "idle"
    /\ log' = IF impl = "manager" /\ log.task = "pending"
              THEN [log EXCEPT !.task = "cancelled"]
              ELSE log
    /\ stop' \in EnterChannel(connections, 1,
                              [NoStop EXCEPT !.held = Held(connections)])
    /\ UNCHANGED <<wsVars, request_queue, status, svcVars, rqVars, fsVars>>

\* stop / shutdown_event after an await: connection.close() has completed or
\* raised (which is logged), and the loop asks for the next connection
StopClose(close_ok) ==
    /\ stop.pc = "closing"
    /\ closed' = [closed EXCEPT ![stop.cur] = @ \/ close_ok]
    /\ stop' \in NextConnection(connections,
                                [stop EXCEPT !.seen = @ \cup {stop.cur},
                                             !.attempted = @ \cup {stop.cur}])
    /\ UNCHANGED <<log, impl, connections, cpc, cslug, accepted, last, got, bc,
                   next_image, request_queue, status, svcVars, rqVars, fsVars>>

\* ------------------------------------------------- the directory watcher
\* os.path.splitext(path)[1]
splitext(path) ==
    CASE path = "a.jpg" -> ".jpg"
      [] path = "b.PNG" -> ".PNG"
      [] path = "notes.txt" -> ".txt"

\* str.lower on the extensions that occur
lower(ext) == IF ext = ".PNG" THEN ".png" ELSE ext

\* utils.ImageHandler._is_image_file
is_image_file(path) ==
    lower(splitext(path)) \in {".jpg", ".jpeg", ".png", ".gif", ".bmp"}

\* the 0.5 s of on_modified, in ms
DebounceMs == 500

\* the recorded time is written only when the callback ran
record_if_called(lm, path, t, invoked) ==
    IF invoked THEN [lm EXCEPT ![path] = t] ELSE lm

\* self.last_modified[event.src_path] = current_time
record_time(lm, path, t, invoked) == [lm EXCEPT ![path] = t]

\* utils.ImageHandler.on_modified; -1 stands for a path that is not a key of
\* last_modified
OnModified(path, is_directory) ==
    LET current_time == clock
        image == ~is_directory /\ is_image_file(path)
        invoked ==
            /\ image
            /\ IF last_modified[path] # -1
               THEN current_time - last_modified[path] > DebounceMs
               ELSE TRUE
    IN /\ last_modified' =
             IF image
             THEN record_time(last_modified, path, current_time, invoked)
             ELSE last_modified
       /\ called' = [path |-> path, is_directory |-> is_directory,
                     invoked |-> invoked, prev |-> last_modified[path]]
       /\ UNCHANGED <<clock, wsVars, sdVars, request_queue, status, svcVars,
                      rqVars>>

\* time passes between two events
WatchTick(gap) ==
    /\ clock + gap <= MaxClockMs
    /\ clock' = clock + gap
    /\ UNCHANGED <<last_modified, called, wsVars, sdVars, request_queue,
                   status, svcVars, rqVars>>

NextWatch ==
    \/ \E path \in Paths, is_directory \in BOOLEAN : OnModified(path, is_directory)
    \/ \E gap \in Gaps : WatchTick(gap)

SpecWatch == Init /\ [][NextWatch]_vars

\* the registry driven through its interface
NextWS ==
    \/ \E w \in Sockets, slug \in Slugs : Connect(w, slug)
    \/ \E w \in Sockets, ok \in BOOLEAN : ConnectAccepted(w, ok)
    \/ \E w \in Sockets, slug \in Slugs : Disconnect(w, slug)
    \/ \E w \in Sockets, slug \in Slugs : Endpoint(w, slug)
    \/ \E w \in Sockets, ok \in BOOLEAN : EndpointAccepted(w, ok)
    \/ \E w \in Sockets : EndpointEnd(w)

SpecWS == InitWS /\ [][NextWS]_vars

\* lookups of the member sets between joins and leaves
NextLookup ==
    \/ \E w \in Sockets, slug \in Slugs : Join(w, slug)
    \/ \E w \in Sockets, ok \in BOOLEAN : JoinAccepted(w, ok)
    \/ \E w \in Sockets, slug \in Slugs : Leave(w, slug)
    \/ \E slug \in Slugs : GetConnections(slug)
    \/ \E w \in Sockets : AddToReturned(w)

SpecLookup == Init /\ [][NextLookup]_vars

\* joins, leaves and send_image calls in any interleaving
NextBC ==
    \/ \E w \in Sockets, slug \in Slugs : Join(w, slug)
    \/ \E w \in Sockets, ok \in BOOLEAN : JoinAccepted(w, ok)
    \/ \E w \in Sockets, slug \in Slugs : Leave(w, slug)
    \/ \E w \in Sockets, slug \in Slugs : Endpoint(w, slug)
    \/ \E w \in Sockets, ok \in BOOLEAN : EndpointAccepted(w, ok)
    \/ \E w \in Sockets : EndpointEnd(w)
    \/ \E b \in BIds, slug \in Slugs, ok \in BOOLEAN : SendImage(b, slug, ok)
    \/ \E b \in BIds, w \in Sockets, ok \in BOOLEAN : SendJson(b, w, ok)

SpecBC == InitWS /\ [][NextBC]_vars

\* send_image calls with sends that may stall; a send that does not stall
\* completes or raises in the end
NextStall ==
    \/ \E w \in Sockets, slug \in Slugs : Join(w, slug)
    \/ \E w \in Sockets, ok \in BOOLEAN : JoinAccepted(w, ok)
    \/ \E w \in Sockets, slug \in Slugs : Endpoint(w, slug)
    \/ \E w \in Sockets, ok \in BOOLEAN : EndpointAccepted(w, ok)
    \/ \E b \in BIds, slug \in Slugs, ok \in BOOLEAN : SendImage(b, slug, ok)
    \/ \E b \in BIds, w \in Sockets, ok \in BOOLEAN : SendJson(b, w, ok)
    \/ \E b \in BIds, w \in Sockets : SendStall(b, w)

SpecStall ==
    /\ InitWS
    /\ [][NextStall]_vars
    /\ WF_vars(\E b \in BIds, w \in Sockets, ok \in BOOLEAN : SendJson(b, w, ok))

\* joins and leaves around start, the logging task and shutdown
NextStop ==
    \/ \E w \in Sockets, slug \in Slugs : Join(w, slug)
    \/ \E w \in Sockets, ok \in BOOLEAN : JoinAccepted(w, ok)
    \/ \E w \in Sockets, slug \in Slugs : Leave(w, slug)
    \/ \E w \in Sockets, slug \in Slugs : Endpoint(w, slug)
    \/ \E w \in Sockets, ok \in BOOLEAN : EndpointAccepted(w, ok)
    \/ \E w \in Sockets : EndpointEnd(w)
    \/ Start
    \/ LogIteration
    \/ StopBegin
    \/ \E ok \in BOOLEAN : StopClose(ok)

SpecStop == InitWS /\ [][NextStop]_vars

\* ------------------------------------------------------------ properties
Started(r) == future[r] \in {"running", "result", "exception"}
Finished(r) == future[r] \in {"result", "exception"}
Succeeded == {r \in Reqs : pc[r] = "returned"}

RECURSIVE SumProcessingTime(_)
SumProcessingTime(S) ==
    IF S = {} THEN 0
    ELSE LET r == CHOOSE x \in S : TRUE
         IN response[r].processing_time_ms + SumProcessingTime(S \ {r})

\* C1: whatever the interleaving of Img2Img and Img2ImgBatch requests, at most
\* one job is executing inside the generation backend at any moment.
C1_AtMostOneExecuting == Cardinality(Executing) <= 1

\* two requests of different kinds are in the servicer at once: one executes
\* in the backend while the other waits
C1_Witness ==
    \E a, b \in Reqs :
        /\ future[a] = "running"
        /\ future[b] = "pending"
        /\ kind[a] # kind[b]

\* C2: the correlation ids of the requests that have arrived are pairwise
\* distinct, strictly increasing in arrival order and contiguous, whatever
\* the kinds of the requests and whether or not earlier jobs failed.
C2_IdsIncreasingContiguous ==
    \A a, b \in Arrived :
        /\ a # b => request_id[a] # request_id[b]
        /\ a < b => request_id[a] < request_id[b]
        /\ b = a + 1 => request_id[b] = request_id[a] + 1

\* a request of the other kind got its id after an earlier job had failed and
\* its handler had raised
C2_Witness ==
    \E a, b \in Reqs :
        /\ a < b
        /\ pc[a] = "raised"
        /\ pc[b] = "awaiting"
        /\ kind[a] # kind[b]
        /\ start_time[b] > start_time[a]

\* C3: jobs enter the backend in submission order: when a request that
\* arrived later has started in the backend, every request that arrived
\* before it has already finished there.
C3_FifoExecution ==
    \A a, b \in Arrived : (a < b /\ Started(b)) => Finished(a)

\* both requests were waiting together, and the later one runs after the
\* earlier one finished
C3_Witness ==
    \E a, b \in Reqs :
        /\ a < b
        /\ kind[a] # kind[b]
        /\ Finished(a)
        /\ future[b] = "running"
        /\ start_time[b] <= started_at[a]

\* C4: a handler raises exactly when its own job raised in the backend and
\* returns a response exactly when its own job returned (never a response
\* for a failed job); a job that failed is followed by its handler raising,
\* and the job waiting behind a failed one is still started by the worker.
C4_FailureIsolated ==
    /\ [](\A r \in Reqs :
            /\ pc[r] = "raised" => future[r] = "exception"
            /\ pc[r] = "returned" =>
                  (future[r] = "result" /\ response[r].generated # "none"))
    /\ \A r \in Reqs : (future[r] = "exception") ~> (pc[r] = "raised")
    /\ \A a, b \in Reqs :
          (future[a] = "exception" /\ future[b] = "pending") ~> Started(b)

\* the first job failed and its handler raised; the job that waited behind it
\* ran and its handler returned a response
C4_Witness ==
    \E a, b \in Reqs :
        /\ a < b
        /\ pc[a] = "raised"
        /\ pc[b] = "returned"
        /\ ahead[b] >= 1

\* C5: if every backend call terminates and no handler is cancelled, every
\* submitted job is eventually executed and its handler eventually returns a
\* response or raises.
C5_EveryJobCompletes ==
    \A r \in Reqs :
        (pc[r] = "awaiting") ~> (Finished(r) /\ pc[r] \in {"returned", "raised"})

\* a job that had to wait behind an earlier one has been executed and its
\* handler has finished
C5_Witness ==
    \E a, b \in Reqs :
        /\ a < b
        /\ ahead[b] >= 1
        /\ Finished(b)
        /\ pc[b] \in {"returned", "raised"}

\* C6: the processing_time_ms of a response is the time from the moment the
\* worker entered the backend for that job until the response was built; the
\* time the job waited behind earlier jobs is not in it.
C6_ProcessingTimeExcludesWait ==
    \A r \in Reqs :
        pc[r] = "returned" =>
            response[r].processing_time_ms = returned_at[r] - started_at[r]

\* C7: the rolling average of the servicer's RequestQueue is the arithmetic
\* mean of the processing times of the jobs that completed successfully.
C7_RollingAverageIsMeanOfSuccesses ==
    Succeeded # {} =>
        request_queue.avg_processing_time =
            Rat(SumProcessingTime(Succeeded), Cardinality(Succeeded))

\* C8: after K calls of update_processing_time on a fresh RequestQueue,
\* total_processed is K and avg_processing_time is the sum of the K samples
\* divided by K.
C8_CumulativeMean ==
    /\ request_queue.total_processed = sample_count
    /\ sample_count > 0 =>
          request_queue.avg_processing_time = Rat(sample_sum, sample_count)

\* several samples whose mean is not a whole number
C8_Witness ==
    /\ sample_count >= 3
    /\ request_queue.total_processed = sample_count
    /\ request_queue.avg_processing_time[2] = 3

\* C9: a status snapshot reports the queue length of the moment it is taken
\* and an estimated wait equal to the rolling average times that length.
C9_EstimatedWaitIsAvgTimesLength ==
    last_op.op = "get_status" =>
        /\ status.queue_length = Len(request_queue.queue)
        /\ status.estimated_wait_time_ms =
              RatMulInt(request_queue.avg_processing_time, status.queue_length)

\* a snapshot taken right after a dequeue, with a non-zero average and a
\* non-empty queue
C9_Witness ==
    /\ last_op = [op |-> "get_status", prev |-> "get_request"]
    /\ status.queue_length = 1
    /\ request_queue.avg_processing_time[1] > 0
    /\ status.estimated_wait_time_ms = request_queue.avg_processing_time

\* C10: the queue_length that GetQueueStatus returns is the number of
\* submitted jobs that wait for the worker.
C10_QueueLengthCountsWaiting ==
    QueueStatusResponse(get_status(request_queue)).queue_length
        = Cardinality(Waiting)

\* C11: the active_requests that GetQueueStatus returns is 0 or 1 and is the
\* number of jobs in flight against the backend.
C11_ActiveRequestsCountsExecuting ==
    LET st == QueueStatusResponse(get_status(request_queue))
    IN /\ st.active_requests \in {0, 1}
       /\ st.active_requests = Cardinality(Executing)

InWorkQueue(r) == \E i \in 1..Len(work_queue) : work_queue[i] = r

\* C12: the job of a handler that was cancelled after submission is still run
\* by the backend, also when it was submitted behind earlier jobs: once its
\* work item has left the executor's queue and is not executing, the backend
\* has returned or raised for it.
C12_CancelledJobStillRuns ==
    \A r \in Reqs :
        (/\ pc[r] = "cancelled"
         /\ ahead[r] >= 1
         /\ ~InWorkQueue(r)
         /\ future[r] # "running")
            => Finished(r)

\* ------------------------------------------------- registry properties
\* the number of entries a socket has in a channel's member collection
Entries(slug, w) == CopiesIn(w, connections[slug])

\* C13: joining a slug that is not configured signals rejection (connect
\* returns False, websocket_endpoint closes the socket), starts no accept,
\* leaves every member set as it was, and the registry's slugs are the
\* configured ones in every reachable state
C13_UnconfiguredJoinRejected ==
    /\ [](DOMAIN connections = CANVAS_SLUGS)
    /\ [][\A w \in Sockets, slug \in Slugs \ CANVAS_SLUGS :
            /\ Connect(w, slug) =>
                  /\ connections' = connections
                  /\ last'.result = "False"
                  /\ cpc'[w] # "accepting"
            /\ Endpoint(w, slug) =>
                  /\ connections' = connections
                  /\ closed'[w]
                  /\ cpc'[w] = "rejected"]_vars

\* a join of the unconfigured slug was rejected while the registry has a member
C13_Witness ==
    /\ \E v \in Sockets : v \in Members(connections, "left-canva")
    /\ \A w \in Sockets : w \notin Members(connections, "other-canva")
    /\ \/ impl = "manager" /\ last = [op |-> "connect", result |-> "False",
                                      member |-> FALSE]
       \/ impl = "main" /\ \E w \in Sockets :
              cpc[w] = "rejected" /\ cslug[w] = "other-canva" /\ closed[w]

\* C14: a socket has at most one entry in a channel's member set, whatever
\* joins and leaves happened, and one leave removes the entry of a socket that
\* joined the channel more than once
C14_JoinIdempotent ==
    /\ [](\A slug \in DOMAIN connections, w \in Sockets : Entries(slug, w) <= 1)
    /\ [][\A w \in Sockets, slug \in CANVAS_SLUGS :
            Disconnect(w, slug) => w \notin Members(connections', slug)]_vars

\* a socket that was already a member has joined again and has one entry
C14_Witness ==
    /\ last = [op |-> "connect", result |-> "True", member |-> TRUE]
    /\ \E slug \in CANVAS_SLUGS, w \in Sockets : Entries(slug, w) = 1

\* C15: disconnect removes the socket when it is a member, changes no member
\* set when it is not a member or the slug is not configured, and never raises
C15_LeaveRemovesOrNoOp ==
    [][\A w \in Sockets, slug \in Slugs :
         Disconnect(w, slug) =>
            /\ last'.result = "returned"
            /\ w \notin Members(connections', slug)
            /\ w \notin Members(connections, slug) => connections' = connections
            /\ \A t \in DOMAIN connections \ {slug} :
                   connections'[t] = connections[t]]_vars

\* C16: get_connections returns the member set of a configured channel as it
\* is; for a slug that is not configured it returns an empty set, raises
\* nothing and leaves the registry as it was, and a socket added to that
\* returned set afterwards does not enter the registry
C16_MembersLookup ==
    /\ [](DOMAIN connections = CANVAS_SLUGS => got.alias = (got.slug \in CANVAS_SLUGS))
    /\ [][/\ \A slug \in Slugs :
               GetConnections(slug) =>
                  /\ connections' = connections
                  /\ Returned' = Members(connections, slug)
                  /\ got'.outcome = "returned"
          /\ \A w \in Sockets :
               (AddToReturned(w) /\ got.slug \notin CANVAS_SLUGS) =>
                  /\ connections' = connections
                  /\ Returned' = Returned \cup {w}]_vars

\* the set returned for the unconfigured slug has been given a socket that the
\* registry does not hold, and the registry has no entry for that slug
C16_Witness ==
    /\ got.slug = "other-canva"
    /\ \E w \in Sockets :
          /\ w \in Returned
          /\ \A slug \in DOMAIN connections : w \notin Members(connections, slug)
    /\ DOMAIN connections = CANVAS_SLUGS

\* ------------------------------------------------- broadcast properties
\* the send_image calls that are about to send to a socket
Sending(w) == {b \in BIds : bc[b].pc = "sending" /\ w \in bc[b].todo}

\* C17: in a send_image call a socket whose send_json raised is removed from
\* the channel and no other socket is; a socket whose send completed stays;
\* the loop goes on to the sockets still to do, so a call that has ended has
\* attempted all of its snapshot; and a call that starts takes its sockets
\* from the members at that moment, so a later call reaches only those that
\* remained (or joined since)
C17_FailedRecipientsEvicted ==
    /\ [](\A b \in BIds : bc[b].pc = "done" => bc[b].todo = {})
    /\ [][/\ \A b \in BIds, w \in Sockets :
               /\ SendJson(b, w, FALSE) =>
                     /\ Members(connections', bc[b].slug) =
                            Members(connections, bc[b].slug) \ {w}
                     /\ bc'[b].todo = bc[b].todo \ {w}
                     /\ bc'[b].failed = bc[b].failed \cup {w}
               /\ SendJson(b, w, TRUE) =>
                     /\ connections' = connections
                     /\ bc'[b].todo = bc[b].todo \ {w}
                     /\ bc'[b].ok = bc[b].ok \cup {w}
          /\ \A b \in BIds, slug \in Slugs, ok \in BOOLEAN :
               SendImage(b, slug, ok) =>
                  Snapshot(b)' \subseteq Members(connections, slug)]_vars

\* the first call to a channel failed for one socket and reached the other;
\* the second call to it had only the other one in its snapshot
C17_Witness ==
    \E w, v \in Sockets :
        /\ w # v
        /\ bc[1].pc = "done" /\ bc[1].slug = "left-canva"
        /\ bc[1].failed = {w} /\ bc[1].ok = {v}
        /\ bc[2].pc = "done" /\ bc[2].slug = "left-canva"
        /\ Snapshot(2) = {v} /\ bc[2].ok = {v}
        /\ Members(connections, "left-canva") = {v}
        /\ Received(w) = {} /\ Received(v) = {1, 2}

\* C18: a send_json that raised is not passed on to the caller of send_image:
\* once the fan-out has started the call ends by returning, whichever sockets
\* failed
C18_DeliveryFailureNotSurfaced ==
    \A b \in BIds :
        /\ bc[b].failed # {} => bc[b].outcome # "raised"
        /\ (bc[b].pc = "done" /\ Snapshot(b) # {}) =>
               bc[b].outcome = "returned"

\* a call whose sends all raised has returned
C18_Witness ==
    \E b \in BIds :
        /\ bc[b].pc = "done"
        /\ bc[b].failed = Sockets
        /\ bc[b].ok = {}
        /\ bc[b].outcome = "returned"

\* C19: a send_image call takes its sockets from the members of its own
\* channel, only those sockets get its message, and no step of it changes
\* the member set of another channel
C19_BroadcastStaysInChannel ==
    [][/\ \A b \in BIds, slug \in Slugs, ok \in BOOLEAN :
            SendImage(b, slug, ok) =>
               /\ Snapshot(b)' \subseteq Members(connections, slug)
               /\ connections' = connections
       /\ \A b \in BIds, w \in Sockets, ok \in BOOLEAN :
            SendJson(b, w, ok) =>
               \A t \in DOMAIN connections \ {bc[b].slug} :
                   connections'[t] = connections[t]
       /\ \A w \in Sockets :
            Received(w)' \ Received(w) \subseteq
                {bc[b].image_id : b \in Sending(w)}]_vars

\* a call to one channel has reached its member, and the member of the other
\* channel is still there and has received nothing
C19_Witness ==
    \E w, v \in Sockets, b \in BIds :
        /\ w # v
        /\ bc[b].pc = "done" /\ bc[b].slug = "left-canva" /\ bc[b].ok = {w}
        /\ Snapshot(b) = {w}
        /\ v \in Members(connections, "right-canva")
        /\ v \notin Members(connections, "left-canva")
        /\ Received(v) = {}

\* C20: send_image for a channel without members, or for a slug that is not
\* configured, returns at once: nothing is encoded, no message is built, no
\* send is attempted and no member set changes
C20_EmptyBroadcastDoesNothing ==
    [][\A b \in BIds, slug \in Slugs, ok \in BOOLEAN :
         (SendImage(b, slug, ok) /\ Members(connections, slug) = {}) =>
            /\ bc'[b].pc = "done"
            /\ bc'[b].outcome = "returned"
            /\ ~bc'[b].encoded
            /\ Snapshot(b)' = {}
            /\ next_image' = next_image
            /\ connections' = connections]_vars

\* a call for the empty configured channel and a call for the slug that is
\* not configured have both returned without encoding, while the other
\* channel has a member
C20_Witness ==
    /\ \E b \in BIds :
          /\ bc[b].pc = "done" /\ bc[b].slug = "left-canva"
          /\ ~bc[b].encoded /\ bc[b].outcome = "returned"
    /\ \E b \in BIds :
          /\ bc[b].pc = "done" /\ bc[b].slug = "other-canva"
          /\ ~bc[b].encoded /\ bc[b].outcome = "returned"
    /\ Members(connections, "right-canva") # {}
    /\ next_image = 0

\* C21: a socket enters a channel's member set only in the step in which its
\* own connect / websocket_endpoint call for that channel gets past accept();
\* no send_image step and no disconnect puts a socket (back) into a set, so a
\* socket that was removed after a failed send stays out until it joins again
C21_EvictedStaysOut ==
    [][\A w \in Sockets, slug \in DOMAIN connections :
         (w \notin Members(connections, slug) /\ w \in Members(connections', slug))
             => /\ cpc[w] = "accepting"
                /\ cslug[w] = slug
                /\ cpc'[w] # "accepting"
                /\ accepted'[w]]_vars

\* a socket was removed by the first call after its send failed; a later call
\* to the same channel reached another socket and did not have the removed
\* one, which is still out
C21_Witness ==
    \E w \in Sockets :
        /\ bc[1].pc = "done" /\ w \in bc[1].failed
        /\ bc[2].pc = "done" /\ bc[2].slug = bc[1].slug
        /\ bc[2].ok # {} /\ w \notin Snapshot(2)
        /\ w \notin Members(connections, bc[1].slug)

\* C22: in a send_image call, every socket of the snapshot has send_json
\* called for it in the end, also when the send to another socket never
\* completes
C22_StallDoesNotBlockOthers ==
    \A b \in BIds, w \in Sockets :
        (bc[b].pc \in {"sending", "stalled"} /\ w \in bc[b].todo)
            ~> (w \in Attempted(b))

\* the send_image calls that built a message
Built == {b \in BIds : bc[b].image_id # 0}

\* C23: a send_image call encodes the image and builds its message once,
\* before the first send, every socket it reaches is given that one message,
\* and the messages of two calls have different image_ids
C23_OneMessagePerCall ==
    /\ next_image = Cardinality(Built)
    /\ \A b \in BIds :
          /\ Snapshot(b) # {} => (bc[b].encoded /\ b \in Built)
          /\ \A m \in bc[b].sent : m[2] = bc[b].image_id /\ m[1] \in bc[b].ok
          /\ \A w \in bc[b].ok : <<w, bc[b].image_id>> \in bc[b].sent
    /\ \A b, c \in Built : b # c => bc[b].image_id # bc[c].image_id

\* one call has given its message to both sockets and another call has given
\* a message with a different image_id to one of them
C23_Witness ==
    \E b, c \in BIds :
        /\ b # c
        /\ bc[b].pc = "done" /\ bc[b].ok = Sockets
        /\ bc[b].sent = {<<w, bc[b].image_id>> : w \in Sockets}
        /\ bc[c].pc = "done" /\ bc[c].sent # {}
        /\ bc[c].image_id # bc[b].image_id

\* C24: a connect / websocket_endpoint call with a slug that is not
\* configured closes the socket in that call and does not call accept()
C24_UnconfiguredAttachClosed ==
    [][\A w \in Sockets, slug \in Slugs \ CANVAS_SLUGS :
         (Connect(w, slug) \/ Endpoint(w, slug)) =>
            /\ closed'[w]
            /\ cpc'[w] # "accepting"
            /\ accepted'[w] = accepted[w]]_vars

\* C25: whatever joins and leaves run between the awaits of stop /
\* shutdown_event, its loop over a channel's member set does not fail with
\* "Set changed size during iteration"
C25_NoSetChangedDuringIteration == stop.pc # "raised"

\* C26: once stop / shutdown_event has ended, the logging task that start /
\* startup_event created runs no further turn
C26_NoLoggingAfterShutdown == ~log.late

\* C27: when stop / shutdown_event has ended, close() has been called on
\* every socket that was in a channel when it began (stated here for the
\* sockets that are still in a channel at the end, which is less than the
\* claim says)
C27_ShutdownClosesEveryConnection ==
    stop.pc \in {"done", "raised"} =>
        \A w \in stop.held \cap Held(connections) : w \in stop.attempted

\* C28: the sockets a send_image call sends to are the members its channel
\* has when the loop begins: that set is fixed from then on whatever joins
\* and leaves follow, every socket of it is sent to once, and when the call
\* has ended the completed and the failed sends together are that set
C28_BroadcastUsesSnapshot ==
    /\ [](\A b \in BIds :
            /\ Attempted(b) \cap bc[b].todo = {}
            /\ bc[b].ok \cap bc[b].failed = {}
            /\ bc[b].pc = "done" =>
                  Cardinality(bc[b].ok) + Cardinality(bc[b].failed)
                      = Cardinality(Snapshot(b)))
    /\ [][\A b \in BIds :
            /\ \A slug \in Slugs :
                  (SendImage(b, slug, TRUE) /\ Members(connections, slug) # {})
                      => Snapshot(b)' = Members(connections, slug)
            /\ bc[b].pc # "idle" => Snapshot(b)' = Snapshot(b)]_vars

\* a call is suspended in a send and a socket that is not in its snapshot has
\* joined its channel
C28_Witness ==
    \E b \in BIds, w \in Sockets :
        /\ bc[b].pc = "sending"
        /\ w \in Members(connections, bc[b].slug)
        /\ w \notin Snapshot(b)
        /\ bc[b].todo # {}

\* C29: in main.py a socket is in a channel's member set only while its
\* websocket_endpoint call is in the receive loop for that channel, after its
\* accept(); once the call has ended the socket is in no set, whether a
\* send_image call had removed it before or not, and the call does not end
\* with an exception of the removal
C29_MemberOnlyWhileHandlerRuns ==
    impl = "main" =>
        \A w \in Sockets :
            /\ \A slug \in DOMAIN connections :
                  w \in Members(connections, slug) =>
                      (cpc[w] = "open" /\ cslug[w] = slug /\ accepted[w])
            /\ accepted[w] => cpc[w] \in {"open", "ended"}

\* two handlers have ended: one whose socket a send_image call had removed
\* after a failed send, one whose socket was still in the set
C29_Witness ==
    /\ impl = "main"
    /\ \E w, v \in Sockets, b \in BIds :
          /\ w # v
          /\ cpc[w] = "ended" /\ cpc[v] = "ended"
          /\ bc[b].pc = "done" /\ w \in bc[b].failed /\ v \in bc[b].ok
          /\ Held(connections) = {}

====
